---- MODULE Spec2Model ----
(***************************************************************************)
(* A model of apko's build orchestration: the configuration model          *)
(* (pkg/build/types), the phased build driver Context.BuildImage and the   *)
(* assertion runner Context.runAssertions (pkg/build).                     *)
(*                                                                         *)
(* Three specifications share the variables:                               *)
(*   Spec          one execution of BuildImage, goroutines interleaved     *)
(*   SpecValidate  ImageConfiguration.Validate applied to configurations   *)
(*   SpecArch      ParseArchitectures applied to raw name lists            *)
(***************************************************************************)
EXTENDS Integers, Sequences, FiniteSets, TLC

VARIABLES
    \* --- pkg/build/types: ImageConfiguration ---
    ic,          \* the configuration (bc.ImageConfiguration)
    icPre,       \* the configuration as it was before the last Validate call
    ic0,         \* the configuration as it was loaded, before any Validate call
    verr,        \* the error returned by the last Validate call
    vcalls,      \* number of Validate calls made
    \* --- pkg/build/types: ParseArchitectures ---
    rawIn,       \* the raw list given to ParseArchitectures
    archOut,     \* ParseArchitectures(rawIn)
    archOut2,    \* ParseArchitectures applied to the string form of archOut
    permIn,      \* a permutation of rawIn
    permOut,     \* ParseArchitectures(permIn)
    apc,         \* position of the ParseArchitectures driver
    \* --- pkg/build: Context and BuildImage ---
    UseProot,    \* bc.UseProot
    SBOMPath,    \* bc.SBOMPath
    nAssert,     \* len(bc.Assertions)
    pc,          \* position of the goroutine running BuildImage
    ret,         \* the error returned by BuildImage (Nil until it returns)
    opState,     \* state of every collaborator operation
    calls,       \* number of invocations of every collaborator operation
    reported,    \* history: the eg.Go functions that reported an error, in order
    gState,      \* state of each goroutine started with eg.Go
    gErr,        \* value returned by the function given to eg.Go
    egWg,        \* errgroup.Group: wait-group counter
    egErr,       \* errgroup.Group: err, set once
    statResult,  \* outcome of os.Stat in InstallBusyboxSymlinks
    \* --- pkg/build: runAssertions ---
    raI,         \* loop index of the launch loop
    aState,      \* state of each assertion goroutine
    aCalls,      \* number of invocations of each assertion
    aErr,        \* value returned by each assertion
    raWg,        \* sync.WaitGroup counter
    errCh,       \* buffered channel contents
    chClosed,    \* errCh has been closed
    panicked,    \* a goroutine sent on the closed channel
    result,      \* runAssertions' local result
    \* --- pkg/sbom/generator/cyclonedx: Generate ---
    opts,        \* *options.Options given to Generate: OS and Packages
    bom,         \* the Document built by Generate
    sbomFile,    \* the file at path: "none", "empty" or the encoded Document
    sbomErr,     \* the error returned by Generate
    spc,         \* position in Generate
    \* --- pkg/tarball: WriteArchiveFromFS ---
    fsys,        \* the filesystem tree: path |-> node
    clock,       \* the time the source files carry in this run
    epoch,       \* ctx.SourceDateEpoch
    disk,        \* the on-disk entry orders ReadDir met in this run
    stack,       \* fs.WalkDir: the paths still to visit, next first
    pending,     \* fs.WalkDir: the directory whose entries are read next
    tw,          \* the entries written to the tar writer
    out,         \* the output sink: "empty", "partial" or the gzip stream
    closeErr,    \* the errors the deferred tw.Close and gzw.Close returned
    tarErr,      \* the error WriteArchiveFromFS returned
    waErr,       \* the error WriteArchive returned
    first,       \* the first run: its clock, disk orders and output
    tpc          \* position in WriteArchiveFromFS

cfgVars   == <<ic, icPre, ic0, verr, vcalls>>
archVars  == <<rawIn, archOut, archOut2, permIn, permOut, apc>>
ctxVars   == <<UseProot, SBOMPath, nAssert>>
egVars    == <<gState, gErr, egWg, egErr>>
raVars    == <<raI, aState, aCalls, aErr, raWg, errCh, chClosed, panicked, result>>
buildVars == <<pc, ret, opState, calls, reported, statResult>>
sbomVars  == <<opts, bom, sbomFile, sbomErr, spc>>
tarVars   == <<fsys, clock, epoch, disk, stack, pending, tw, out, closeErr,
               tarErr, waErr, first, tpc>>
vars      == <<cfgVars, archVars, ctxVars, sbomVars, tarVars, egVars, raVars,
               buildVars>>

(***************************************************************************)
(* Bounds                                                                  *)
(***************************************************************************)
MaxArchs         == 2   \* longest raw architecture list
MaxPackages      == 2   \* longest Contents.Packages before Validate
MaxUsers         == 2   \* longest Accounts.Users
MaxGroups        == 2   \* longest Accounts.Groups
MaxValidateCalls == 2   \* Validate calls in SpecValidate
MaxAssertions    == 2   \* longest bc.Assertions

(***************************************************************************)
(* Generic helpers                                                         *)
(***************************************************************************)
SeqsUpTo(S, n) == UNION {[1..k -> S] : k \in 0..n}

Range(s) == {s[i] : i \in DOMAIN s}

\* all sequences that list the set S exactly once each
RECURSIVE Orders(_)
Orders(S) ==
    IF S = {} THEN {<<>>}
    ELSE UNION {{<<x>> \o t : t \in Orders(S \ {x})} : x \in S}

\* all rearrangements of the sequence s
Permutations_(s) ==
    {[i \in DOMAIN s |-> s[p[i]]] : p \in Orders(DOMAIN s)}

(***************************************************************************)
(* Go errors                                                               *)
(***************************************************************************)
Nil == [kind |-> "nil"]

\* the error a collaborator (or os.Stat, or assertion number idx) returns
OpError(op, idx) == [kind |-> "op", op |-> op, idx |-> idx]

\* fmt.Errorf(msg, arg): arg is the %v value or the wrapped %w error
Errorf(msg, arg) == [kind |-> "errorf", msg |-> msg, arg |-> arg]

(***************************************************************************)
(* pkg/build/types/types.go: Architecture                                  *)
(***************************************************************************)
arch386     == "386"
archAmd64   == "amd64"
archArm64   == "arm64"
archArmv6   == "arm/v6"
archArmv7   == "arm/v7"
archPpc64le == "ppc64le"
archRiscv64 == "riscv64"
archS390x   == "s390x"

AllArchs ==
    <<arch386, archAmd64, archArm64, archArmv6, archArmv7,
      archPpc64le, archRiscv64, archS390x>>

\* the apk-style names ParseArchitectures rewrites
ApkNames == {"x86", "x86_64", "aarch64", "armhf", "armv7"}

\* raw names the model feeds to ParseArchitectures: every canonical name,
\* every apk-style name and one name that is neither
RawNames == Range(AllArchs) \cup ApkNames \cup {"mips"}

\* the bytes of a name (Go compares strings byte by byte)
Bytes(s) ==
    CASE s = "386"     -> <<51, 56, 54>>
      [] s = "amd64"   -> <<97, 109, 100, 54, 52>>
      [] s = "arm64"   -> <<97, 114, 109, 54, 52>>
      [] s = "arm/v6"  -> <<97, 114, 109, 47, 118, 54>>
      [] s = "arm/v7"  -> <<97, 114, 109, 47, 118, 55>>
      [] s = "ppc64le" -> <<112, 112, 99, 54, 52, 108, 101>>
      [] s = "riscv64" -> <<114, 105, 115, 99, 118, 54, 52>>
      [] s = "s390x"   -> <<115, 51, 57, 48, 120>>
      [] s = "x86"     -> <<120, 56, 54>>
      [] s = "x86_64"  -> <<120, 56, 54, 95, 54, 52>>
      [] s = "aarch64" -> <<97, 97, 114, 99, 104, 54, 52>>
      [] s = "armhf"   -> <<97, 114, 109, 104, 102>>
      [] s = "armv7"   -> <<97, 114, 109, 118, 55>>
      [] s = "mips"    -> <<109, 105, 112, 115>>

RECURSIVE BytesLess(_, _)
BytesLess(a, b) ==
    IF b = <<>> THEN FALSE
    ELSE IF a = <<>> THEN TRUE
    ELSE IF Head(a) # Head(b) THEN Head(a) < Head(b)
    ELSE BytesLess(Tail(a), Tail(b))

\* archs[i] < archs[j] on Go strings
StringLess(a, b) == BytesLess(Bytes(a), Bytes(b))

\* a ToAPK that gives arm/v7 the name of arm/v6
ToAPK_armhfTwice(a) ==
    CASE a = arch386   -> "x86"
      [] a = archAmd64 -> "x86_64"
      [] a = archArm64 -> "aarch64"
      [] a = archArmv6 -> "armhf"
      [] a = archArmv7 -> "armhf"
      [] OTHER         -> a

\* Architecture.ToAPK
ToAPK(a) ==
    CASE a = arch386   -> "x86"
      [] a = archAmd64 -> "x86_64"
      [] a = archArm64 -> "aarch64"
      [] a = archArmv6 -> "armhf"
      [] a = archArmv7 -> "armv7"
      [] OTHER         -> a

\* a rewriting that sends x86 to another apk-style name
ParseOne_chained(s) ==
    CASE s = "x86"     -> "x86_64"
      [] s = "x86_64"  -> archAmd64
      [] s = "aarch64" -> archArm64
      [] s = "armhf"   -> archArmv6
      [] s = "armv7"   -> archArmv7
      [] OTHER         -> s

\* the body of the loop over the input: a := Architecture(s); switch s {...}
ParseOne(s) ==
    CASE s = "x86"     -> arch386
      [] s = "x86_64"  -> archAmd64
      [] s = "aarch64" -> archArm64
      [] s = "armhf"   -> archArmv6
      [] s = "armv7"   -> archArmv7
      [] OTHER         -> s

\* the keys of the map uniq after the loop over the input
Uniq(in) == {ParseOne(in[i]) : i \in DOMAIN in}

\* the orders in which "for k := range uniq" may append the keys
MapRangeOrders(uniq) == Orders(uniq)

RECURSIVE InsertSorted(_, _)
InsertSorted(a, sorted) ==
    IF sorted = <<>> THEN <<a>>
    ELSE IF StringLess(a, Head(sorted)) THEN <<a>> \o sorted
    ELSE <<Head(sorted)>> \o InsertSorted(a, Tail(sorted))

RECURSIVE SortAscending(_)
SortAscending(archs) ==
    IF archs = <<>> THEN <<>>
    ELSE InsertSorted(Head(archs), SortAscending(Tail(archs)))

\* the slice returned as the map iteration left it
SortSlice_skipped(archs) == archs

\* sort.Slice(archs, func(i, j int) bool { return archs[i] < archs[j] })
SortSlice(archs) == SortAscending(archs)

\* ParseArchitectures(in), when the map iteration appends the keys in the
\* order iter (iter \in MapRangeOrders(Uniq(in)))
ParseArchitectures(in, iter) == SortSlice(iter)

\* string(a) for every element: Architecture is a string type
ToStrings(archs) == [i \in DOMAIN archs |-> archs[i]]

InitArch ==
    /\ rawIn \in SeqsUpTo(RawNames, MaxArchs)
    /\ archOut = <<>> /\ archOut2 = <<>>
    /\ permIn = <<>> /\ permOut = <<>>
    /\ apc = "input"

ArchIdle ==
    /\ rawIn = <<>> /\ archOut = <<>> /\ archOut2 = <<>>
    /\ permIn = <<>> /\ permOut = <<>>
    /\ apc = "idle"

\* archs := ParseArchitectures(rawIn)
ParseRaw ==
    /\ apc = "input"
    /\ \E iter \in MapRangeOrders(Uniq(rawIn)) :
          archOut' = ParseArchitectures(rawIn, iter)
    /\ apc' = "parsed"
    /\ UNCHANGED <<rawIn, archOut2, permIn, permOut,
                   cfgVars, ctxVars, sbomVars, tarVars, egVars, raVars, buildVars>>

\* ParseArchitectures applied to the strings of its own output
ParseOwnOutput ==
    /\ apc = "parsed"
    /\ \E iter \in MapRangeOrders(Uniq(ToStrings(archOut))) :
          archOut2' = ParseArchitectures(ToStrings(archOut), iter)
    /\ apc' = "reparsed"
    /\ UNCHANGED <<rawIn, archOut, permIn, permOut,
                   cfgVars, ctxVars, sbomVars, tarVars, egVars, raVars, buildVars>>

\* ParseArchitectures applied to a rearrangement of the raw list
ParsePermuted ==
    /\ apc = "reparsed"
    /\ \E p \in Permutations_(rawIn) :
          /\ permIn' = p
          /\ \E iter \in MapRangeOrders(Uniq(p)) :
                permOut' = ParseArchitectures(p, iter)
    /\ apc' = "permuted"
    /\ UNCHANGED <<rawIn, archOut, archOut2,
                   cfgVars, ctxVars, sbomVars, tarVars, egVars, raVars, buildVars>>

(***************************************************************************)
(* pkg/build/types: ImageConfiguration and Validate                        *)
(***************************************************************************)
User(name, uid, gid) == [UserName |-> name, UID |-> uid, GID |-> gid]

Group(name, gid, members) == [GroupName |-> name, GID |-> gid, Members |-> members]

ImageConfiguration(packages, type, command, users, groups) ==
    [Contents   |-> [Repositories |-> <<"https://dl-cdn.alpinelinux.org/alpine/edge/main">>,
                     Keyring      |-> <<>>,
                     Packages     |-> packages],
     Entrypoint |-> [Type |-> type, Command |-> command, Services |-> <<>>],
     Accounts   |-> [RunAs |-> "", Users |-> users, Groups |-> groups],
     Archs      |-> <<>>]

\* the values the model gives the fields Validate reads or writes
PackageNames == {"s6", "busybox"}
EntrypointTypes == {"", "service-bundle"}
Commands == {"", "/bin/sh"}

\* a valid user, one without a name and one with UID 0
Users_ ==
    {User("nobody", 65534, 65534), User("", 65534, 65534), User("nobody", 0, 65534)}

\* a valid group, one without a name and one with GID 0
Groups_ ==
    {Group("nogroup", 65534, <<>>), Group("", 65534, <<>>), Group("nogroup", 0, <<>>)}

Configurations ==
    {ImageConfiguration(p, t, c, us, gs) :
        p \in SeqsUpTo(PackageNames, MaxPackages),
        t \in EntrypointTypes, c \in Commands,
        us \in SeqsUpTo(Users_, MaxUsers),
        gs \in SeqsUpTo(Groups_, MaxGroups)}

\* ValidateServiceBundle without the append to Contents.Packages
ValidateServiceBundle_noAppend(c) ==
    [cfg |-> [c EXCEPT !.Entrypoint.Command = "/bin/s6-svscan /sv"],
     err |-> Nil]

\* ImageConfiguration.ValidateServiceBundle: the configuration it leaves and
\* the error it returns
ValidateServiceBundle(c) ==
    [cfg |-> [c EXCEPT !.Entrypoint.Command = "/bin/s6-svscan /sv",
                       !.Contents.Packages = Append(@, "s6")],
     err |-> Nil]

\* the user loop, accepting UID 0
RECURSIVE ValidateUsers_nameOnly(_)
ValidateUsers_nameOnly(users) ==
    IF users = <<>> THEN Nil
    ELSE IF Head(users).UserName = ""
         THEN Errorf("configured user %v has no configured user name", Head(users))
    ELSE ValidateUsers_nameOnly(Tail(users))

\* for _, u := range ic.Accounts.Users { ... }: the first error, or Nil
RECURSIVE ValidateUsers(_)
ValidateUsers(users) ==
    IF users = <<>> THEN Nil
    ELSE IF Head(users).UserName = ""
         THEN Errorf("configured user %v has no configured user name", Head(users))
    ELSE IF Head(users).UID = 0
         THEN Errorf("configured user %v has UID 0", Head(users))
    ELSE ValidateUsers(Tail(users))

\* for _, g := range ic.Accounts.Groups { ... }: the first error, or Nil
RECURSIVE ValidateGroups(_)
ValidateGroups(groups) ==
    IF groups = <<>> THEN Nil
    ELSE IF Head(groups).GroupName = ""
         THEN Errorf("configured group %v has no configured group name", Head(groups))
    ELSE IF Head(groups).GID = 0
         THEN Errorf("configured group %v has GID 0", Head(groups))
    ELSE ValidateGroups(Tail(groups))

\* a Validate that checks the accounts first and touches the configuration
\* only when they are valid
Validate_checkFirst(c) ==
    LET ue == ValidateUsers(c.Accounts.Users)
        ge == ValidateGroups(c.Accounts.Groups)
    IN  IF ue # Nil THEN [cfg |-> c, err |-> ue]
        ELSE IF ge # Nil THEN [cfg |-> c, err |-> ge]
        ELSE IF c.Entrypoint.Type = "service-bundle" THEN ValidateServiceBundle(c)
        ELSE [cfg |-> c, err |-> Nil]

\* ImageConfiguration.Validate: the configuration it leaves and the error it
\* returns
Validate(c) ==
    LET sb == IF c.Entrypoint.Type = "service-bundle"
              THEN ValidateServiceBundle(c)
              ELSE [cfg |-> c, err |-> Nil]
        ue == ValidateUsers(sb.cfg.Accounts.Users)
        ge == ValidateGroups(sb.cfg.Accounts.Groups)
    IN  IF sb.err # Nil THEN sb
        ELSE IF ue # Nil THEN [cfg |-> sb.cfg, err |-> ue]
        ELSE IF ge # Nil THEN [cfg |-> sb.cfg, err |-> ge]
        ELSE [cfg |-> sb.cfg, err |-> Nil]

\* the effect of one ic.Validate() call on the configuration variables
CallValidate ==
    /\ icPre' = ic
    /\ ic0' = ic0
    /\ ic' = Validate(ic).cfg
    /\ verr' = Validate(ic).err
    /\ vcalls' = vcalls + 1

InitConfig(configs) ==
    /\ ic \in configs
    /\ icPre = ic
    /\ ic0 = ic
    /\ verr = Nil
    /\ vcalls = 0

\* a caller invoking ic.Validate()
ValidateCall ==
    /\ vcalls < MaxValidateCalls
    /\ CallValidate
    /\ UNCHANGED <<archVars, ctxVars, sbomVars, tarVars, egVars, raVars, buildVars>>

(***************************************************************************)
(* pkg/build: the build context and the operations BuildImage drives       *)
(***************************************************************************)
\* the functions BuildImage hands to eg.Go
BootstrapOps   == {"InitApkKeyring", "InitApkRepositories", "InitApkWorld"}
PostInstallOps == {"normalizeApkScriptsTar", "MutateAccounts"}
GoOps          == BootstrapOps \cup PostInstallOps

\* operations whose code lives outside BuildImage: they return nil, return
\* an error, or never return
Collaborators ==
    GoOps \cup {"InitApkDB", "FixateApkWorld", "ExecuteChroot",
                "WriteSupervisionTree", "GenerateSBOM"}

Ops == Collaborators \cup {"Validate", "runAssertions", "InstallBusyboxSymlinks"}

\* the numbered phase an operation belongs to ("assertion" is one assertion
\* function run by runAssertions, ExecuteChroot the command run by
\* InstallBusyboxSymlinks)
Phase(op) ==
    CASE op = "Validate"                                  -> 1
      [] op = "InitApkDB"                                 -> 2
      [] op \in BootstrapOps                              -> 3
      [] op = "FixateApkWorld"                            -> 4
      [] op \in PostInstallOps                            -> 5
      [] op \in {"runAssertions", "assertion"}            -> 6
      [] op \in {"InstallBusyboxSymlinks", "ExecuteChroot"} -> 7
      [] op = "WriteSupervisionTree"                      -> 8
      [] op = "GenerateSBOM"                              -> 9

\* the message each eg.Go function wraps its operation's error with
GoMessage(op) ==
    CASE op = "InitApkKeyring"         -> "failed to initialize apk keyring: %w"
      [] op = "InitApkRepositories"    -> "failed to initialize apk repositories: %w"
      [] op = "InitApkWorld"           -> "failed to initialize apk world: %w"
      [] op = "normalizeApkScriptsTar" -> "failed to normalize scripts.tar: %w"
      [] op = "MutateAccounts"         -> "failed to mutate accounts: %w"

\* configurations BuildImage is run on: a plain valid one, a service bundle
\* and one Validate rejects
BuildConfigs ==
    {ImageConfiguration(<<"busybox">>, "", "/bin/sh",
                        <<User("nobody", 65534, 65534)>>,
                        <<Group("nogroup", 65534, <<>>)>>),
     ImageConfiguration(<<>>, "service-bundle", "", <<>>, <<>>),
     ImageConfiguration(<<"busybox">>, "", "/bin/sh",
                        <<User("nobody", 0, 0)>>, <<>>)}

SBOMPaths == {"", "sbom.cdx"}

InitBuild ==
    /\ UseProot \in BOOLEAN
    /\ SBOMPath \in SBOMPaths
    /\ nAssert \in 0..MaxAssertions
    /\ pc = "Validate"
    /\ ret = Nil
    /\ opState = [op \in Ops |-> "idle"]
    /\ calls = [op \in Ops |-> 0]
    /\ reported = <<>>
    /\ gState = [op \in GoOps |-> "none"]
    /\ gErr = [op \in GoOps |-> Nil]
    /\ egWg = 0
    /\ egErr = Nil
    /\ statResult = "unknown"
    /\ raI = 1
    /\ aState = [i \in 1..nAssert |-> "none"]
    /\ aCalls = [i \in 1..nAssert |-> 0]
    /\ aErr = [i \in 1..nAssert |-> Nil]
    /\ raWg = 0
    /\ errCh = <<>>
    /\ chClosed = FALSE
    /\ panicked = FALSE
    /\ result = Nil

BuildIdle ==
    /\ UseProot = FALSE
    /\ SBOMPath = ""
    /\ nAssert = 0
    /\ pc = "idle"
    /\ ret = Nil
    /\ opState = [op \in Ops |-> "idle"]
    /\ calls = [op \in Ops |-> 0]
    /\ reported = <<>>
    /\ gState = [op \in GoOps |-> "none"]
    /\ gErr = [op \in GoOps |-> Nil]
    /\ egWg = 0
    /\ egErr = Nil
    /\ statResult = "unknown"
    /\ raI = 1
    /\ aState = <<>>
    /\ aCalls = <<>>
    /\ aErr = <<>>
    /\ raWg = 0
    /\ errCh = <<>>
    /\ chClosed = FALSE
    /\ panicked = FALSE
    /\ result = Nil

\* an operation is entered
Invoke(op) ==
    /\ opState' = [opState EXCEPT ![op] = "running"]
    /\ calls' = [calls EXCEPT ![op] = @ + 1]

\* an operation returns, with nil (ok) or with an error
Complete(op, ok) ==
    /\ opState' = [opState EXCEPT ![op] = IF ok THEN "ok" ELSE "failed"]
    /\ UNCHANGED calls

\* a collaborator blocks for ever
Hang ==
    \E op \in Collaborators :
        /\ opState[op] = "running"
        /\ opState' = [opState EXCEPT ![op] = "hung"]
        /\ UNCHANGED <<cfgVars, archVars, ctxVars, sbomVars, tarVars, egVars, raVars,
                       pc, ret, calls, reported, statResult>>

\* BuildImage calls a collaborator from its own goroutine
SeqCall(op) ==
    /\ pc = op
    /\ opState[op] = "idle"
    /\ Invoke(op)
    /\ UNCHANGED <<cfgVars, archVars, ctxVars, sbomVars, tarVars, egVars, raVars, pc, ret,
                   reported, statResult>>

\* "if err := op(); err != nil { return fmt.Errorf(msg, err) }" with the
\* error check dropped
SeqReturn_ignoreError(op, msg, next) ==
    /\ pc = op
    /\ opState[op] = "running"
    /\ \E ok \in BOOLEAN : Complete(op, ok)
    /\ pc' = next
    /\ UNCHANGED <<cfgVars, archVars, ctxVars, sbomVars, tarVars, egVars, raVars, ret,
                   reported, statResult>>

\* an operation that failed is called again
SeqReturn_retry(op, msg, next) ==
    /\ pc = op
    /\ opState[op] = "running"
    /\ \E ok \in BOOLEAN :
          /\ opState' = [opState EXCEPT ![op] = IF ok THEN "ok" ELSE "idle"]
          /\ pc' = IF ok THEN next ELSE op
    /\ UNCHANGED <<cfgVars, archVars, ctxVars, sbomVars, tarVars, egVars, raVars, ret, calls,
                   reported, statResult>>

\* "if err := op(); err != nil { return fmt.Errorf(msg, err) }"
SeqReturn(op, msg, next) ==
    /\ pc = op
    /\ opState[op] = "running"
    /\ \E ok \in BOOLEAN :
          /\ Complete(op, ok)
          /\ IF ok THEN pc' = next /\ ret' = ret
                   ELSE pc' = "done" /\ ret' = Errorf(msg, OpError(op, 0))
    /\ UNCHANGED <<cfgVars, archVars, ctxVars, sbomVars, tarVars, egVars, raVars, reported, statResult>>

(***************************************************************************)
(* errgroup.Group as BuildImage uses it: eg.Go and eg.Wait                 *)
(***************************************************************************)
\* eg.Go(f): count the goroutine in and start it
EgGo(op, next) ==
    /\ pc = op
    /\ gState[op] = "none"
    /\ gState' = [gState EXCEPT ![op] = "spawned"]
    /\ egWg' = egWg + 1
    /\ pc' = next
    /\ UNCHANGED <<cfgVars, archVars, ctxVars, sbomVars, tarVars, raVars, gErr, egErr,
                   ret, opState, calls, reported, statResult>>

\* the goroutine enters the operation
GoCall(op) ==
    /\ gState[op] = "spawned"
    /\ Invoke(op)
    /\ gState' = [gState EXCEPT ![op] = "running"]
    /\ UNCHANGED <<cfgVars, archVars, ctxVars, sbomVars, tarVars, raVars, gErr, egWg, egErr,
                   pc, ret, reported, statResult>>

\* the operation returns and the function wraps its error
GoReturn(op) ==
    /\ gState[op] = "running"
    /\ opState[op] = "running"
    /\ \E ok \in BOOLEAN :
          /\ Complete(op, ok)
          /\ gErr' = [gErr EXCEPT ![op] =
                         IF ok THEN Nil ELSE Errorf(GoMessage(op), OpError(op, 0))]
    /\ gState' = [gState EXCEPT ![op] = "returned"]
    /\ UNCHANGED <<cfgVars, archVars, ctxVars, sbomVars, tarVars, raVars, egWg, egErr,
                   pc, ret, reported, statResult>>

\* a group that keeps the error reported last
ErrOnce_lastWins(cur, err) == err

\* g.errOnce.Do(func() { g.err = err }): only the first report is kept
ErrOnce(cur, err) == IF cur = Nil THEN err ELSE cur

\* the goroutine reports a non-nil error to the group and counts itself out
GoExit(op) ==
    /\ gState[op] = "returned"
    /\ IF gErr[op] # Nil
       THEN /\ egErr' = ErrOnce(egErr, gErr[op])
            /\ reported' = Append(reported, op)
       ELSE UNCHANGED <<egErr, reported>>
    /\ egWg' = egWg - 1
    /\ gState' = [gState EXCEPT ![op] = "exited"]
    /\ UNCHANGED <<cfgVars, archVars, ctxVars, sbomVars, tarVars, raVars, gErr,
                   pc, ret, opState, calls, statResult>>

\* a Wait that does not wait
EgWaitUnblocked_noJoin == TRUE

\* a Wait that also returns as soon as an error has been reported
EgWaitUnblocked_failFast == egWg = 0 \/ egErr # Nil

\* g.wg.Wait() returns when every goroutine has counted itself out
EgWaitUnblocked == egWg = 0

\* "if err := eg.Wait(); err != nil { return err }"
EgWait(at, next) ==
    /\ pc = at
    /\ EgWaitUnblocked
    /\ IF egErr # Nil THEN pc' = "done" /\ ret' = egErr
                      ELSE pc' = next /\ ret' = ret
    /\ UNCHANGED <<cfgVars, archVars, ctxVars, sbomVars, tarVars, egVars, raVars,
                   opState, calls, reported, statResult>>

(***************************************************************************)
(* Context.runAssertions                                                   *)
(***************************************************************************)
\* an Append that keeps only the newest error
MultiAppend_overwrite(res, err) == [kind |-> "multi", errors |-> <<err>>]

\* multierror.Append(result, err)
MultiAppend(res, err) ==
    IF res = Nil THEN [kind |-> "multi", errors |-> <<err>>]
    ELSE [res EXCEPT !.errors = Append(@, err)]

\* a result channel one slot too small: make(chan error, len(bc.Assertions)-1)
ErrChCap_oneShort == nAssert - 1

\* cap(errCh) = len(bc.Assertions)
ErrChCap == nAssert

\* BuildImage enters runAssertions: wg, result and errCh are created
RaEnter ==
    /\ pc = "runAssertions"
    /\ Invoke("runAssertions")
    /\ raI' = 1
    /\ pc' = IF nAssert = 0 THEN "ra.wait" ELSE "ra.launch"
    /\ UNCHANGED <<cfgVars, archVars, ctxVars, sbomVars, tarVars, egVars, ret, reported, statResult,
                   aState, aCalls, aErr, raWg, errCh, chClosed, panicked, result>>

\* one iteration of the launch loop: wg.Add(1); go func() {...}()
RaLaunch ==
    /\ pc = "ra.launch"
    /\ raI <= nAssert
    /\ raWg' = raWg + 1
    /\ aState' = [aState EXCEPT ![raI] = "spawned"]
    /\ raI' = raI + 1
    /\ pc' = IF raI + 1 > nAssert THEN "ra.wait" ELSE "ra.launch"
    /\ UNCHANGED <<cfgVars, archVars, ctxVars, sbomVars, tarVars, egVars, ret, opState, calls, reported,
                   statResult, aCalls, aErr, errCh, chClosed, panicked, result>>

\* the goroutine calls its assertion: a(bc)
AssertCall(i) ==
    /\ aState[i] = "spawned"
    /\ aState' = [aState EXCEPT ![i] = "running"]
    /\ aCalls' = [aCalls EXCEPT ![i] = @ + 1]
    /\ UNCHANGED <<cfgVars, archVars, ctxVars, sbomVars, tarVars, egVars, buildVars,
                   raI, aErr, raWg, errCh, chClosed, panicked, result>>

\* the assertion returns nil or an error
AssertReturn(i) ==
    /\ aState[i] = "running"
    /\ \E ok \in BOOLEAN :
          aErr' = [aErr EXCEPT ![i] = IF ok THEN Nil ELSE OpError("assertion", i)]
    /\ aState' = [aState EXCEPT ![i] = "returned"]
    /\ UNCHANGED <<cfgVars, archVars, ctxVars, sbomVars, tarVars, egVars, buildVars,
                   raI, aCalls, raWg, errCh, chClosed, panicked, result>>

\* the assertion blocks for ever
AssertHang(i) ==
    /\ aState[i] = "running"
    /\ aState' = [aState EXCEPT ![i] = "hung"]
    /\ UNCHANGED <<cfgVars, archVars, ctxVars, sbomVars, tarVars, egVars, buildVars,
                   raI, aCalls, aErr, raWg, errCh, chClosed, panicked, result>>

\* "errCh <- err": blocks while the buffer is full, panics on a closed channel
AssertSend(i) ==
    /\ aState[i] = "returned"
    /\ aErr[i] # Nil
    /\ chClosed \/ Len(errCh) < ErrChCap
    /\ IF chClosed THEN panicked' = TRUE /\ errCh' = errCh
                   ELSE panicked' = panicked /\ errCh' = Append(errCh, aErr[i])
    /\ aState' = [aState EXCEPT ![i] = "sent"]
    /\ UNCHANGED <<cfgVars, archVars, ctxVars, sbomVars, tarVars, egVars, buildVars,
                   raI, aCalls, aErr, raWg, chClosed, result>>

\* the deferred wg.Done()
AssertDone(i) ==
    /\ \/ aState[i] = "sent"
       \/ aState[i] = "returned" /\ aErr[i] = Nil
    /\ raWg' = raWg - 1
    /\ aState' = [aState EXCEPT ![i] = "exited"]
    /\ UNCHANGED <<cfgVars, archVars, ctxVars, sbomVars, tarVars, egVars, buildVars,
                   raI, aCalls, aErr, errCh, chClosed, panicked, result>>

\* a Wait that does not wait
RaWaitUnblocked_noJoin == TRUE

\* wg.Wait() returns when the counter is zero
RaWaitUnblocked == raWg = 0

\* wg.Wait()
RaWait ==
    /\ pc = "ra.wait"
    /\ RaWaitUnblocked
    /\ pc' = "ra.close"
    /\ UNCHANGED <<cfgVars, archVars, ctxVars, sbomVars, tarVars, egVars, raVars,
                   ret, opState, calls, reported, statResult>>

\* close(errCh)
RaClose ==
    /\ pc = "ra.close"
    /\ chClosed' = TRUE
    /\ pc' = "ra.drain"
    /\ UNCHANGED <<cfgVars, archVars, ctxVars, sbomVars, tarVars, egVars, ret, opState, calls, reported,
                   statResult, raI, aState, aCalls, aErr, raWg, errCh, panicked, result>>

\* one iteration of "for err := range errCh": result = multierror.Append(...)
RaDrain ==
    /\ pc = "ra.drain"
    /\ errCh # <<>>
    /\ result' = MultiAppend(result, Head(errCh))
    /\ errCh' = Tail(errCh)
    /\ UNCHANGED <<cfgVars, archVars, ctxVars, sbomVars, tarVars, egVars, buildVars,
                   raI, aState, aCalls, aErr, raWg, chClosed, panicked>>

\* the range loop ends on the closed, empty channel; runAssertions returns
\* result and BuildImage does "if err := bc.runAssertions(); err != nil
\* { return err }"
RaReturn ==
    /\ pc = "ra.drain"
    /\ errCh = <<>>
    /\ chClosed
    /\ Complete("runAssertions", result = Nil)
    /\ IF result # Nil THEN pc' = "done" /\ ret' = result
                       ELSE pc' = "InstallBusyboxSymlinks" /\ ret' = ret
    /\ UNCHANGED <<cfgVars, archVars, ctxVars, sbomVars, tarVars, egVars, raVars, reported, statResult>>

(***************************************************************************)
(* Context.BuildImage, statement by statement                              *)
(***************************************************************************)
\* bc.ImageConfiguration.Validate()
BuildValidate ==
    /\ pc = "Validate"
    /\ CallValidate
    /\ opState' = [opState EXCEPT !["Validate"] =
                      IF Validate(ic).err = Nil THEN "ok" ELSE "failed"]
    /\ calls' = [calls EXCEPT !["Validate"] = @ + 1]
    /\ IF Validate(ic).err # Nil
       THEN /\ pc' = "done"
            /\ ret' = Errorf("failed to validate configuration: %w", Validate(ic).err)
       ELSE /\ pc' = "InitApkDB"
            /\ ret' = ret
    /\ UNCHANGED <<archVars, ctxVars, sbomVars, tarVars, egVars, raVars, reported, statResult>>

InitApkDBCall == SeqCall("InitApkDB")

InitApkDBReturn ==
    SeqReturn("InitApkDB", "failed to initialize apk database: %w", "InitApkKeyring")

GoInitApkKeyring == EgGo("InitApkKeyring", "InitApkRepositories")

GoInitApkRepositories == EgGo("InitApkRepositories", "InitApkWorld")

GoInitApkWorld == EgGo("InitApkWorld", "Wait.bootstrap")

WaitBootstrap == EgWait("Wait.bootstrap", "FixateApkWorld")

FixateApkWorldCall == SeqCall("FixateApkWorld")

FixateApkWorldReturn ==
    SeqReturn("FixateApkWorld", "failed to fixate apk world: %w", "normalizeApkScriptsTar")

GoNormalizeApkScriptsTar == EgGo("normalizeApkScriptsTar", "MutateAccounts")

GoMutateAccounts == EgGo("MutateAccounts", "Wait.postinstall")

WaitPostInstall == EgWait("Wait.postinstall", "runAssertions")

\* the bodies of the functions given to eg.Go, each in its own goroutine
GoroutineCall == \E op \in GoOps : GoCall(op)

GoroutineReturn == \E op \in GoOps : GoReturn(op)

GoroutineExit == \E op \in GoOps : GoExit(op)

\* the goroutines runAssertions starts
AssertionCall == \E i \in 1..nAssert : AssertCall(i)

AssertionReturn == \E i \in 1..nAssert : AssertReturn(i)

AssertionHang == \E i \in 1..nAssert : AssertHang(i)

AssertionSend == \E i \in 1..nAssert : AssertSend(i)

AssertionDone == \E i \in 1..nAssert : AssertDone(i)

\* "if bc.UseProot {" is false
SkipBusyboxSymlinks ==
    /\ pc = "InstallBusyboxSymlinks"
    /\ ~UseProot
    /\ pc' = "WriteSupervisionTree"
    /\ UNCHANGED <<cfgVars, archVars, ctxVars, sbomVars, tarVars, egVars, raVars,
                   ret, opState, calls, reported, statResult>>

\* "if bc.UseProot {": bc.InstallBusyboxSymlinks() is entered
InstallBusyboxSymlinksCall ==
    /\ pc = "InstallBusyboxSymlinks"
    /\ UseProot
    /\ opState["InstallBusyboxSymlinks"] = "idle"
    /\ Invoke("InstallBusyboxSymlinks")
    /\ pc' = "InstallBusyboxSymlinks.Stat"
    /\ UNCHANGED <<cfgVars, archVars, ctxVars, sbomVars, tarVars, egVars, raVars, ret,
                   reported, statResult>>

\* an InstallBusyboxSymlinks that returns every os.Stat error, also
\* os.ErrNotExist
InstallBusyboxSymlinksStat_notExistFails ==
    /\ pc = "InstallBusyboxSymlinks.Stat"
    /\ \E st \in {"notexist", "error", "exists"} :
          /\ statResult' = st
          /\ \/ /\ st \in {"notexist", "error"}
                /\ Complete("InstallBusyboxSymlinks", FALSE)
                /\ pc' = "done"
                /\ ret' = Errorf("failed to install busybox symlinks: %w",
                                 OpError("os.Stat", 0))
             \/ /\ st = "exists"
                /\ Invoke("ExecuteChroot")
                /\ pc' = "InstallBusyboxSymlinks.ExecuteChroot"
                /\ ret' = ret
    /\ UNCHANGED <<cfgVars, archVars, ctxVars, sbomVars, tarVars, egVars, raVars, reported>>

\* InstallBusyboxSymlinks: os.Stat(path) and what follows from its outcome
InstallBusyboxSymlinksStat ==
    /\ pc = "InstallBusyboxSymlinks.Stat"
    /\ \E st \in {"notexist", "error", "exists"} :
          /\ statResult' = st
          /\ \/ /\ st = "notexist"
                /\ Complete("InstallBusyboxSymlinks", TRUE)
                /\ pc' = "WriteSupervisionTree"
                /\ ret' = ret
             \/ /\ st = "error"
                /\ Complete("InstallBusyboxSymlinks", FALSE)
                /\ pc' = "done"
                /\ ret' = Errorf("failed to install busybox symlinks: %w",
                                 OpError("os.Stat", 0))
             \/ /\ st = "exists"
                /\ Invoke("ExecuteChroot")
                /\ pc' = "InstallBusyboxSymlinks.ExecuteChroot"
                /\ ret' = ret
    /\ UNCHANGED <<cfgVars, archVars, ctxVars, sbomVars, tarVars, egVars, raVars, reported>>

\* InstallBusyboxSymlinks: bc.ExecuteChroot("/bin/busybox", "--install", "-s")
\* returns, then InstallBusyboxSymlinks returns to BuildImage
InstallBusyboxSymlinksReturn ==
    /\ pc = "InstallBusyboxSymlinks.ExecuteChroot"
    /\ opState["ExecuteChroot"] = "running"
    /\ \E ok \in BOOLEAN :
          /\ opState' = [opState EXCEPT
                            !["ExecuteChroot"] = IF ok THEN "ok" ELSE "failed",
                            !["InstallBusyboxSymlinks"] = IF ok THEN "ok" ELSE "failed"]
          /\ IF ok
             THEN pc' = "WriteSupervisionTree" /\ ret' = ret
             ELSE /\ pc' = "done"
                  /\ ret' = Errorf("failed to install busybox symlinks: %w",
                                Errorf("failed to install busybox symlinks: %w",
                                       OpError("ExecuteChroot", 0)))
    /\ UNCHANGED <<cfgVars, archVars, ctxVars, sbomVars, tarVars, egVars, raVars, calls,
                   reported, statResult>>

WriteSupervisionTreeCall == SeqCall("WriteSupervisionTree")

WriteSupervisionTreeReturn ==
    SeqReturn("WriteSupervisionTree", "failed to write supervision tree: %w", "GenerateSBOM")

\* "if bc.SBOMPath != "" {" is false: return nil
SkipGenerateSBOM ==
    /\ pc = "GenerateSBOM"
    /\ SBOMPath = ""
    /\ pc' = "done"
    /\ UNCHANGED <<cfgVars, archVars, ctxVars, sbomVars, tarVars, egVars, raVars,
                   ret, opState, calls, reported, statResult>>

\* GenerateSBOM called whatever bc.SBOMPath is
GenerateSBOMCall_always == SeqCall("GenerateSBOM")

\* "if bc.SBOMPath != "" {": bc.GenerateSBOM() is entered
GenerateSBOMCall == SBOMPath # "" /\ SeqCall("GenerateSBOM")

\* GenerateSBOM returns; on success BuildImage returns nil
GenerateSBOMReturn ==
    SeqReturn("GenerateSBOM", "failed to generate SBOM: %w", "done")

BuildImage ==
    \/ BuildValidate
    \/ InitApkDBCall \/ InitApkDBReturn
    \/ GoInitApkKeyring \/ GoInitApkRepositories \/ GoInitApkWorld
    \/ WaitBootstrap
    \/ FixateApkWorldCall \/ FixateApkWorldReturn
    \/ GoNormalizeApkScriptsTar \/ GoMutateAccounts
    \/ WaitPostInstall
    \/ RaEnter \/ RaLaunch \/ RaWait \/ RaClose \/ RaDrain \/ RaReturn
    \/ SkipBusyboxSymlinks \/ InstallBusyboxSymlinksCall
    \/ InstallBusyboxSymlinksStat \/ InstallBusyboxSymlinksReturn
    \/ WriteSupervisionTreeCall \/ WriteSupervisionTreeReturn
    \/ SkipGenerateSBOM \/ GenerateSBOMCall \/ GenerateSBOMReturn

Goroutines ==
    \/ GoroutineCall \/ GoroutineReturn \/ GoroutineExit
    \/ AssertionCall \/ AssertionReturn \/ AssertionHang
    \/ AssertionSend \/ AssertionDone
    \/ Hang

(***************************************************************************)
(* pkg/sbom/generator/cyclonedx: Generate                                  *)
(* Go strings are sequences of one-character strings.                      *)
(***************************************************************************)
\* longest list of dependency specifiers of a package
MaxDeps == 2

\* strings.ContainsRune(s, r)
ContainsRune(s, r) == \E i \in DOMAIN s : s[i] = r

\* the characters of the IndexAny call without '/'
IndexAnyChars_noSlash == {" ", "~", "<", ">", "=", "!"}

\* the chars argument of strings.IndexAny(dep, " ~<>=/!")
IndexAnyChars == {" ", "~", "<", ">", "=", "/", "!"}

\* strings.IndexAny(s, chars) as a Go index (from 0), -1 when none occurs;
\* from is the Go index of the first character of s
RECURSIVE IndexAnyFrom(_, _, _)
IndexAnyFrom(s, chars, from) ==
    IF s = <<>> THEN -1
    ELSE IF Head(s) \in chars THEN from
    ELSE IndexAnyFrom(Tail(s), chars, from + 1)

IndexAny(s, chars) == IndexAnyFrom(s, chars, 0)

\* dep[:i]
SliceTo(s, i) == SubSeq(s, 1, i)

\* fmt.Sprintf("pkg:apk/%s/%s", id, dep)
SprintfPkgApk2(id, dep) ==
    <<"p", "k", "g", ":", "a", "p", "k", "/">> \o id \o <<"/">> \o dep

\* fmt.Sprintf("pkg:apk/%s", id)
SprintfPkgApk1(id) == <<"p", "k", "g", ":", "a", "p", "k", "/">> \o id

\* purl.Package(distro, pkg): a package-URL keyed by OS id, package name
\* and version
Package(id, pkg) ==
    [purl |-> "apk", distro |-> id, name |-> pkg.Name, version |-> pkg.Version]

\* the loop "for _, dep := range pkg.Dependencies" with depRefs so far
RECURSIVE WalkDependencies(_, _, _)
WalkDependencies(deps, id, depRefs) ==
    IF deps = <<>> THEN depRefs
    ELSE LET dep == Head(deps)
             i   == IndexAny(dep, IndexAnyChars)
             cut == IF i > -1 THEN SliceTo(dep, i) ELSE dep
         IN  IF ContainsRune(dep, ":")
                 THEN WalkDependencies(Tail(deps), id, depRefs)
             ELSE IF cut = <<>>
                 THEN WalkDependencies(Tail(deps), id, depRefs)
             ELSE WalkDependencies(Tail(deps), id,
                                   Append(depRefs, SprintfPkgApk2(id, cut)))

\* the Component of one package
PkgComponent(id, pkg) ==
    [BOMRef      |-> Package(id, pkg),
     Name        |-> pkg.Name,
     Version     |-> pkg.Version,
     Description |-> pkg.Description,
     Licenses    |-> <<[Expression |-> pkg.License]>>,
     PUrl        |-> Package(id, pkg),
     Type        |-> "operating-system"]

\* the Dependency of one package
PkgDependency(id, pkg) ==
    [Ref       |-> Package(id, pkg),
     DependsOn |-> WalkDependencies(pkg.Dependencies, id, <<>>)]

\* the loop "for _, pkg := range opts.Packages"
RECURSIVE WalkPackages(_, _, _, _)
WalkPackages(pkgs, id, pkgComponents, pkgDependencies) ==
    IF pkgs = <<>>
        THEN [Components |-> pkgComponents, Dependencies |-> pkgDependencies]
    ELSE WalkPackages(Tail(pkgs), id,
                      Append(pkgComponents, PkgComponent(id, Head(pkgs))),
                      Append(pkgDependencies, PkgDependency(id, Head(pkgs))))

\* rootComponent and bom
Document(o) ==
    LET w == WalkPackages(o.Packages, o.OS.ID, <<>>, <<>>)
        rootComponent ==
            [BOMRef     |-> SprintfPkgApk1(o.OS.ID),
             Name       |-> o.OS.Name,
             Version    |-> o.OS.Version,
             Type       |-> "operating-system",
             Components |-> w.Components]
    IN  [BOMFormat    |-> "CycloneDX",
         SpecVersion  |-> "1.4",
         Version      |-> 1,
         Components   |-> <<rootComponent>>,
         Dependencies |-> w.Dependencies]

\* the inputs of Generate
wolfi  == <<"w", "o", "l", "f", "i">>
alpine == <<"a", "l", "p", "i", "n", "e">>

OS(id) == [ID |-> id, Name |-> id, Version |-> <<"1">>]

Pkg(name, deps) ==
    [Name |-> name, Version |-> <<"1">>, Description |-> name,
     License |-> <<"M", "I", "T">>, Dependencies |-> deps]

\* dependency specifiers: the empty one, a plain name, a name followed by
\* each version/constraint character and a version, two that start with such
\* a character, two with a colon, one with two constraint characters, and one
\* with a colon after a constraint character
Specifiers ==
    {<<>>, <<"b">>}
    \cup {<<"b", c, "1">> : c \in {" ", "~", "<", ">", "=", "/", "!"}}
    \cup {<<"=", "1">>, <<"/">>}
    \cup {<<"b", ":", "1">>, <<":", "b">>}
    \cup {<<"b", ">", "=", "1">>, <<"b", "=", ":">>}

\* package foo depending on "bar>=1.0", "virtual:baz" and "qux"
foo ==
    Pkg(<<"f", "o", "o">>,
        << <<"b", "a", "r", ">", "=", "1", ".", "0">>,
           <<"v", "i", "r", "t", "u", "a", "l", ":", "b", "a", "z">>,
           <<"q", "u", "x">> >>)

Options ==
    {[OS |-> OS(wolfi), Packages |-> <<foo>>]}
    \cup {[OS |-> OS(wolfi), Packages |-> <<Pkg(<<"p">>, deps)>>] :
             deps \in SeqsUpTo(Specifiers, MaxDeps)}
    \cup {[OS |-> OS(alpine), Packages |-> <<foo, Pkg(<<"p">>, deps)>>] :
             deps \in SeqsUpTo(Specifiers, MaxDeps)}

InitSBOM ==
    /\ opts \in Options
    /\ bom = Nil
    /\ sbomFile = "none"
    /\ sbomErr = Nil
    /\ spc = "start"

SBOMIdle ==
    /\ opts = [OS |-> OS(<<>>), Packages |-> <<>>]
    /\ bom = Nil
    /\ sbomFile = "none"
    /\ sbomErr = Nil
    /\ spc = "idle"

\* Generate up to "bom := Document{...}"
GenerateDocument ==
    /\ spc = "start"
    /\ bom' = Document(opts)
    /\ spc' = "os.Create"
    /\ UNCHANGED <<opts, sbomFile, sbomErr,
                   cfgVars, archVars, ctxVars, tarVars, egVars, raVars, buildVars>>

\* out, err := os.Create(path): the file is created empty, or Generate
\* returns the wrapped error
GenerateCreate ==
    /\ spc = "os.Create"
    /\ \E ok \in BOOLEAN :
          IF ok
              THEN /\ sbomFile' = "empty"
                   /\ sbomErr' = sbomErr
                   /\ spc' = "enc.Encode"
              ELSE /\ sbomFile' = sbomFile
                   /\ sbomErr' = Errorf("opening SBOM path %s for writing: %w",
                                        OpError("os.Create", 0))
                   /\ spc' = "done"
    /\ UNCHANGED <<opts, bom,
                   cfgVars, archVars, ctxVars, tarVars, egVars, raVars, buildVars>>

\* enc.SetIndent("", "  "); enc.Encode(bom): the Document is written as
\* indented JSON, or Generate returns the wrapped error
GenerateEncode ==
    /\ spc = "enc.Encode"
    /\ \E ok \in BOOLEAN :
          IF ok
              THEN /\ sbomFile' = [json |-> bom, indent |-> "  "]
                   /\ sbomErr' = Nil
              ELSE /\ sbomFile' = sbomFile
                   /\ sbomErr' = Errorf("encoding BOM: %w",
                                        OpError("enc.Encode", 0))
    /\ spc' = "done"
    /\ UNCHANGED <<opts, bom,
                   cfgVars, archVars, ctxVars, tarVars, egVars, raVars, buildVars>>

(***************************************************************************)
(* pkg/tarball/tarball.go: WriteArchiveFromFS                              *)
(* A path is the sequence of its components; a component and a header      *)
(* name are sequences of one-character strings.                            *)
(***************************************************************************)
\* the byte of a character of a file name
CharByte(c) ==
    CASE c = "." -> 46 [] c = "/" -> 47
      [] c = "a" -> 97 [] c = "b" -> 98 [] c = "c" -> 99

\* name1 < name2 on Go strings
NameLess(a, b) ==
    BytesLess([i \in DOMAIN a |-> CharByte(a[i])],
              [i \in DOMAIN b |-> CharByte(b[i])])

\* the file names of the trees: "a" and "a.b" in the root, "b" and "c" below
TopNames == {<<"a">>, <<"a", ".", "b">>}
ChildNames == {<<"b">>, <<"c">>}

\* what a name of the root is: nothing, a regular file, a symlink, or a
\* directory with some of the child names as regular files
TopShapes ==
    {[type |-> "absent"], [type |-> "file"], [type |-> "symlink"]}
    \cup {[type |-> "dir", kids |-> K] : K \in SUBSET ChildNames}

DirNode == [type |-> "dir", mode |-> "drwxr-xr-x"]
FileNode(p) == [type |-> "file", mode |-> "-rw-r--r--", data |-> p[Len(p)]]
LinkNode == [type |-> "symlink", mode |-> "Lrwxrwxrwx", link |-> <<"b">>]

PathsUnder(n, s) ==
    IF s.type = "absent" THEN {}
    ELSE {<<n>>} \cup (IF s.type = "dir" THEN {<<n, k>> : k \in s.kids} ELSE {})

\* the tree whose root holds "a" of shape sa and "a.b" of shape sb
TreeOf(sa, sb) ==
    [p \in {<<>>} \cup PathsUnder(<<"a">>, sa) \cup PathsUnder(<<"a", ".", "b">>, sb) |->
        IF p = <<>> THEN DirNode
        ELSE IF Len(p) = 2 THEN FileNode(p)
        ELSE LET sh == IF p[1] = <<"a">> THEN sa ELSE sb
             IN  CASE sh.type = "dir"     -> DirNode
                   [] sh.type = "file"    -> FileNode(p)
                   [] sh.type = "symlink" -> LinkNode]

Trees == {TreeOf(sa, sb) : sa \in TopShapes, sb \in TopShapes}

\* the times a source tree may carry, and the epochs a Context may hold
RealTimes == {100, 200}
Epochs == {0, 1}

\* the names of the entries of directory p
EntryNames(tree, p) ==
    {q[Len(q)] : q \in {r \in DOMAIN tree :
                           Len(r) = Len(p) + 1 /\ SubSeq(r, 1, Len(p)) = p}}

\* sort.Slice(list, func(i, j) bool { return list[i].Name() < list[j].Name() })
RECURSIVE SortByName(_)
SortByName(names) ==
    IF names = <<>> THEN <<>>
    ELSE LET rest == SortByName(Tail(names))
             lo   == SelectSeq(rest, LAMBDA n : NameLess(n, Head(names)))
             hi   == SelectSeq(rest, LAMBDA n : ~NameLess(n, Head(names)))
         IN  lo \o <<Head(names)>> \o hi

\* a ReadDir that returns the entries as the disk holds them
ReadDir_unsorted(onDisk) == onDisk

\* fs.ReadDir: the entries of a directory, sorted by filename
ReadDir(onDisk) == SortByName(onDisk)

\* path.Join(name, d1.Name()) of fs.WalkDir, as a header name: "." for the
\* root, the components joined by "/" below it
RECURSIVE JoinPath(_)
JoinPath(p) ==
    IF p = <<>> THEN <<".">>
    ELSE IF Len(p) = 1 THEN p[1]
    ELSE JoinPath(SubSeq(p, 1, Len(p) - 1)) \o <<"/">> \o p[Len(p)]

\* d.Info(): the FileInfo of the entry at path p, with the times of the source
Info(tree, p, t) ==
    [name    |-> IF p = <<>> THEN <<".">> ELSE p[Len(p)],
     node    |-> tree[p],
     ModTime |-> t, AccessTime |-> t + 1, ChangeTime |-> t + 2]

\* tar.FileInfoHeader(info, link)
FileInfoHeader(info, link) ==
    [Name       |-> IF info.node.type = "dir" THEN info.name \o <<"/">>
                    ELSE info.name,
     Typeflag   |-> info.node.type,
     Mode       |-> info.node.mode,
     Size       |-> IF info.node.type = "file" THEN Len(info.node.data) ELSE 0,
     Linkname   |-> link,
     ModTime    |-> info.ModTime,
     AccessTime |-> info.AccessTime,
     ChangeTime |-> info.ChangeTime]

\* a normalisation that forgets the access time
NormalizeHeader_keepAccess(header, name, t) ==
    [header EXCEPT !.Name = name, !.ModTime = t, !.ChangeTime = t]

\* header.Name = path; header.AccessTime, ModTime, ChangeTime = SourceDateEpoch
NormalizeHeader(header, name, t) ==
    [header EXCEPT !.Name = name, !.AccessTime = t, !.ModTime = t,
                   !.ChangeTime = t]

\* the states of the output sink
SinkEmpty == [state |-> "empty"]
SinkPartial == [state |-> "partial"]
\* gzw.Close() after tw.Close(): the compressed tar stream with its trailer
Gzip(entries) == [state |-> "complete", gzip |-> [entries |-> entries, trailer |-> TRUE]]

InitTar ==
    /\ fsys \in Trees
    /\ clock \in RealTimes
    /\ epoch \in Epochs
    /\ disk = <<>> /\ stack = <<>> /\ pending = <<>>
    /\ tw = <<>> /\ out = SinkEmpty
    /\ closeErr = <<>> /\ tarErr = Nil /\ waErr = Nil
    /\ first = <<>>
    /\ tpc = "start"

TarIdle ==
    /\ fsys = TreeOf([type |-> "absent"], [type |-> "absent"])
    /\ clock = 0 /\ epoch = 0
    /\ disk = <<>> /\ stack = <<>> /\ pending = <<>>
    /\ tw = <<>> /\ out = SinkEmpty
    /\ closeErr = <<>> /\ tarErr = Nil /\ waErr = Nil
    /\ first = <<>>
    /\ tpc = "idle"

OtherVars == <<cfgVars, archVars, ctxVars, sbomVars, egVars, raVars, buildVars>>

\* gzip.NewWriter(out), tar.NewWriter(gzw), and fs.WalkDir's fs.Stat of the
\* root: on failure the callback is called with the error and returns it
WalkRoot ==
    /\ tpc = "start"
    /\ \E ok \in BOOLEAN :
          IF ok THEN /\ stack' = << <<>> >>
                     /\ tarErr' = tarErr
                     /\ tpc' = "walk"
                ELSE /\ stack' = stack
                     /\ tarErr' = OpError("fs.Stat", 0)
                     /\ tpc' = "return"
    /\ UNCHANGED <<fsys, clock, epoch, disk, pending, tw, out, closeErr, waErr,
                   first, OtherVars>>

\* the places where the callback can fail on an entry of the given type
FailureSites(type) ==
    {"d.Info", "tar.FileInfoHeader", "tw.WriteHeader"}
    \cup (IF type = "symlink" THEN {"os.Readlink"} ELSE {})
    \cup (IF type = "file" THEN {"fsys.Open", "io.Copy"} ELSE {})

\* the callback of fs.WalkDir on the next path, called with err == nil
Visit ==
    /\ tpc = "walk"
    /\ pending = <<>>
    /\ stack # <<>>
    /\ LET p      == Head(stack)
           info   == Info(fsys, p, clock)
           link   == IF info.node.type = "symlink" THEN info.node.link ELSE <<>>
           header == NormalizeHeader(FileInfoHeader(info, link), JoinPath(p), epoch)
           data   == IF info.node.type = "file" THEN info.node.data ELSE <<>>
       IN  \E site \in FailureSites(info.node.type) \cup {"none"} :
              CASE site = "none" ->
                      /\ tw' = Append(tw, [header |-> header, data |-> data])
                      /\ stack' = Tail(stack)
                      /\ pending' = IF info.node.type = "dir" THEN <<p>> ELSE <<>>
                      /\ UNCHANGED <<out, tarErr, tpc>>
                [] site \in {"d.Info", "os.Readlink", "tar.FileInfoHeader"} ->
                      /\ tarErr' = OpError(site, 0)
                      /\ tpc' = "return"
                      /\ UNCHANGED <<tw, stack, pending, out>>
                [] site = "tw.WriteHeader" ->
                      /\ tarErr' = OpError(site, 0)
                      /\ tpc' = "return"
                      /\ out' = SinkPartial
                      /\ UNCHANGED <<tw, stack, pending>>
                [] site = "fsys.Open" ->
                      /\ tw' = Append(tw, [header |-> header, data |-> <<>>])
                      /\ tarErr' = OpError(site, 0)
                      /\ tpc' = "return"
                      /\ UNCHANGED <<stack, pending, out>>
                [] site = "io.Copy" ->
                      /\ tw' = Append(tw, [header |-> header, data |-> <<>>])
                      /\ tarErr' = OpError(site, 0)
                      /\ tpc' = "return"
                      /\ out' = SinkPartial
                      /\ UNCHANGED <<stack, pending>>
    /\ UNCHANGED <<fsys, clock, epoch, disk, closeErr, waErr, first, OtherVars>>

\* fs.WalkDir reads the directory just visited: its entries, in whatever
\* order the disk holds them, are sorted and walked next; when the read fails
\* the callback is called again with the error and returns it
WalkReadDir ==
    /\ tpc = "walk"
    /\ pending # <<>>
    /\ LET p == pending[1]
       IN  \E ok \in BOOLEAN :
              IF ok
                  THEN \E onDisk \in Orders(EntryNames(fsys, p)) :
                          /\ stack' = [i \in DOMAIN onDisk |->
                                          Append(p, ReadDir(onDisk)[i])] \o stack
                          /\ disk' = Append(disk, onDisk)
                          /\ UNCHANGED <<tarErr, tpc>>
                  ELSE /\ tarErr' = OpError("ReadDir", 0)
                       /\ tpc' = "return"
                       /\ UNCHANGED <<stack, disk>>
    /\ pending' = <<>>
    /\ UNCHANGED <<fsys, clock, epoch, tw, out, closeErr, waErr, first, OtherVars>>

\* fs.WalkDir has returned and WriteArchiveFromFS returns what it returned;
\* the deferred tw.Close() and gzw.Close() run and their results are dropped
Return ==
    /\ \/ tpc = "return"
       \/ tpc = "walk" /\ stack = <<>> /\ pending = <<>>
    /\ \E twOk \in BOOLEAN, gzOk \in BOOLEAN :
          /\ closeErr' = (IF twOk THEN <<>> ELSE <<OpError("tw.Close", 0)>>)
                         \o (IF gzOk THEN <<>> ELSE <<OpError("gzw.Close", 0)>>)
          /\ out' = IF twOk /\ gzOk THEN Gzip(tw) ELSE SinkPartial
    /\ tpc' = "done"
    /\ UNCHANGED <<fsys, clock, epoch, disk, stack, pending, tw, tarErr, waErr,
                   first, OtherVars>>

\* WriteArchive: "if err := ctx.WriteArchiveFromFS(src, fs, w); err != nil"
WriteArchive ==
    /\ tpc = "done"
    /\ waErr' = IF tarErr # Nil
                    THEN Errorf("writing TAR archive failed: %w", tarErr)
                    ELSE Nil
    /\ tpc' = "returned"
    /\ UNCHANGED <<fsys, clock, epoch, disk, stack, pending, tw, out, closeErr,
                   tarErr, first, OtherVars>>

\* the same tree is archived once more with the same epoch, after its files
\* got other timestamps; the first run is remembered
Rerun ==
    /\ tpc = "returned"
    /\ first = <<>>
    /\ waErr = Nil /\ closeErr = <<>>
    /\ first' = <<[clock |-> clock, disk |-> disk, out |-> out]>>
    /\ clock' \in RealTimes \ {clock}
    /\ disk' = <<>> /\ stack' = <<>> /\ pending' = <<>>
    /\ tw' = <<>> /\ out' = SinkEmpty
    /\ closeErr' = <<>> /\ tarErr' = Nil /\ waErr' = Nil
    /\ tpc' = "start"
    /\ UNCHANGED <<fsys, epoch, OtherVars>>

(***************************************************************************)
(* Specifications                                                          *)
(***************************************************************************)
Init == InitConfig(BuildConfigs) /\ ArchIdle /\ SBOMIdle /\ TarIdle /\ InitBuild

Next == BuildImage \/ Goroutines

Spec == Init /\ [][Next]_vars

InitValidate ==
    InitConfig(Configurations) /\ ArchIdle /\ SBOMIdle /\ TarIdle /\ BuildIdle

NextValidate == ValidateCall

SpecValidate == InitValidate /\ [][NextValidate]_vars

InitArchs ==
    /\ InitConfig({ImageConfiguration(<<>>, "", "", <<>>, <<>>)})
    /\ InitArch
    /\ SBOMIdle
    /\ TarIdle
    /\ BuildIdle

NextArchs == ParseRaw \/ ParseOwnOutput \/ ParsePermuted

SpecArch == InitArchs /\ [][NextArchs]_vars

\* the Go scheduler runs every runnable goroutine: the steps of runAssertions
\* and of the goroutines it starts are taken when they stay possible; an
\* assertion that can return does return unless it blocks for ever
Fairness ==
    /\ WF_vars(RaLaunch) /\ WF_vars(RaWait) /\ WF_vars(RaClose)
    /\ WF_vars(RaDrain) /\ WF_vars(RaReturn)
    /\ WF_vars(AssertionCall) /\ WF_vars(AssertionReturn)
    /\ WF_vars(AssertionSend) /\ WF_vars(AssertionDone)

SpecLive == Init /\ [][Next]_vars /\ Fairness

InitGenerate ==
    /\ InitConfig({ImageConfiguration(<<>>, "", "", <<>>, <<>>)})
    /\ ArchIdle
    /\ InitSBOM
    /\ TarIdle
    /\ BuildIdle

NextGenerate == GenerateDocument \/ GenerateCreate \/ GenerateEncode

SpecSBOM == InitGenerate /\ [][NextGenerate]_vars

InitArchive ==
    /\ InitConfig({ImageConfiguration(<<>>, "", "", <<>>, <<>>)})
    /\ ArchIdle
    /\ SBOMIdle
    /\ InitTar
    /\ BuildIdle

NextArchive == WalkRoot \/ Visit \/ WalkReadDir \/ Return \/ WriteArchive \/ Rerun

SpecTar == InitArchive /\ [][NextArchive]_vars

(***************************************************************************)
(* Vocabulary of the properties                                            *)
(***************************************************************************)
\* everything BuildImage runs: the operations and the assertion functions
Units ==
    {[op |-> o, idx |-> 0] : o \in Ops}
        \cup {[op |-> "assertion", idx |-> i] : i \in 1..nAssert}

UPhase(u) == Phase(u.op)

UStarted(u) ==
    IF u.op = "assertion" THEN aState[u.idx] \notin {"none", "spawned"}
    ELSE opState[u.op] # "idle"

UReturned(u) ==
    IF u.op = "assertion" THEN aState[u.idx] \in {"returned", "sent", "exited"}
    ELSE opState[u.op] \in {"ok", "failed"}

UInProgress(u) == UStarted(u) /\ ~UReturned(u)

UFailed(u) ==
    IF u.op = "assertion" THEN UReturned(u) /\ aErr[u.idx] # Nil
    ELSE opState[u.op] = "failed"

\* an operation BuildImage leaves out in this build
USkipped(u) ==
    \/ u.op = "InstallBusyboxSymlinks" /\ ~UseProot
    \/ u.op = "ExecuteChroot" /\ (~UseProot \/ statResult = "notexist")
    \/ u.op = "GenerateSBOM" /\ SBOMPath = ""

\* the positions of BuildImage in program order
BuildOrder ==
    <<"Validate", "InitApkDB", "InitApkKeyring", "InitApkRepositories",
      "InitApkWorld", "Wait.bootstrap", "FixateApkWorld",
      "normalizeApkScriptsTar", "MutateAccounts", "Wait.postinstall",
      "runAssertions", "ra.launch", "ra.wait", "ra.close", "ra.drain",
      "InstallBusyboxSymlinks", "InstallBusyboxSymlinks.Stat",
      "InstallBusyboxSymlinks.ExecuteChroot", "WriteSupervisionTree",
      "GenerateSBOM", "done">>

Rank(l) == CHOOSE i \in DOMAIN BuildOrder : BuildOrder[i] = l

Past(l) == Rank(pc) > Rank(l)

FailedAssertions == {i \in 1..nAssert : aErr[i] # Nil}

RunAssertionsReturned == opState["runAssertions"] \in {"ok", "failed"}

(***************************************************************************)
(* Properties of BuildImage (checked under Spec)                           *)
(***************************************************************************)
\* C1: the phases run in the numbered order. An operation of a later phase
\* has started only if every operation of every earlier phase has returned
\* (or is left out of this build: the busybox step without UseProot, the
\* SBOM without a path), the optional operations run only when asked for,
\* and operations in progress at the same time belong to the same phase.
PhasesInOrder ==
    /\ \A a, b \in Units :
          UPhase(a) < UPhase(b) /\ UStarted(b)
              => UReturned(a) \/ (USkipped(a) /\ ~UStarted(a))
    /\ \A a \in Units : USkipped(a) => ~UStarted(a)
    /\ \A a, b \in Units :
          UInProgress(a) /\ UInProgress(b) => UPhase(a) = UPhase(b)

\* a complete successful build with every optional phase and two assertions
PhasesInOrder_witness ==
    /\ pc = "done" /\ ret = Nil
    /\ UseProot /\ SBOMPath # "" /\ nAssert = 2
    /\ statResult = "exists"
    /\ \A u \in Units : UReturned(u)

\* C2: once an operation has failed no operation of a later phase is ever
\* started, a BuildImage that returns after a failure returns a non-nil
\* error, and after a failed Validate no collaborator has been invoked.
FailFast ==
    /\ \A a, b \in Units :
          UFailed(a) /\ UPhase(a) < UPhase(b) => ~UStarted(b)
    /\ pc = "done" /\ (\E a \in Units : UFailed(a)) => ret # Nil
    /\ opState["Validate"] = "failed"
          => /\ \A op \in Collaborators : calls[op] = 0
             /\ \A i \in 1..nAssert : aCalls[i] = 0

\* BuildImage has returned because FixateApkWorld failed
FailFast_witness ==
    /\ pc = "done"
    /\ opState["FixateApkWorld"] = "failed"
    /\ ret = Errorf("failed to fixate apk world: %w", OpError("FixateApkWorld", 0))

\* C3: BuildImage gets past the join of a concurrent phase only when every
\* operation of the phase has been launched and has returned and its
\* goroutine has finished, also when a sibling has failed; while one of them
\* never returns BuildImage stays at the join.
FailTogether ==
    /\ Past("Wait.bootstrap") /\ opState["InitApkDB"] = "ok"
          => \A op \in BootstrapOps :
                opState[op] \in {"ok", "failed"} /\ gState[op] = "exited"
    /\ Past("Wait.postinstall") /\ opState["FixateApkWorld"] = "ok"
          => \A op \in PostInstallOps :
                opState[op] \in {"ok", "failed"} /\ gState[op] = "exited"
    /\ \A op \in BootstrapOps :
          opState[op] \in {"running", "hung"} => ~Past("Wait.bootstrap")
    /\ \A op \in PostInstallOps :
          opState[op] \in {"running", "hung"} => ~Past("Wait.postinstall")

\* the bootstrap phase has failed: two operations reported an error one
\* after the other, the third returned nil, and BuildImage has returned
FailTogether_witness ==
    /\ pc = "done" /\ ret # Nil
    /\ Len(reported) = 2
    /\ Range(reported) \subseteq BootstrapOps
    /\ \E op \in BootstrapOps : opState[op] = "ok"

\* C4: when runAssertions has returned, its result is nil if no assertion
\* returned an error, and otherwise an aggregate holding exactly the errors
\* the assertions returned, each once.
AggregateExact ==
    RunAssertionsReturned =>
        IF FailedAssertions = {}
        THEN result = Nil
        ELSE /\ result.kind = "multi"
             /\ Len(result.errors) = Cardinality(FailedAssertions)
             /\ Range(result.errors) = {aErr[i] : i \in FailedAssertions}

\* runAssertions has returned with two failed assertions
AggregateExact_witness ==
    /\ RunAssertionsReturned
    /\ nAssert >= 2
    /\ Cardinality(FailedAssertions) = 2

\* C5: one goroutine per assertion, every assertion called at most once and,
\* when runAssertions returns, exactly once and to completion; the channel
\* is closed and drained only when every goroutine has finished, and nobody
\* sends on the closed channel.
AssertionsOnce ==
    /\ \A i \in 1..nAssert : aCalls[i] <= 1
    /\ Cardinality({i \in 1..nAssert : aState[i] # "none"}) = raI - 1
    /\ raWg = Cardinality({i \in 1..nAssert : aState[i] \notin {"none", "exited"}})
    /\ chClosed \/ pc \in {"ra.close", "ra.drain"} \/ RunAssertionsReturned
          => \A i \in 1..nAssert : aCalls[i] = 1 /\ aState[i] = "exited"
    /\ ~panicked

\* runAssertions has returned after one assertion failed and one passed
AssertionsOnce_witness ==
    /\ RunAssertionsReturned
    /\ nAssert >= 2
    /\ aErr[1] # Nil /\ aErr[2] = Nil
    /\ aCalls[1] = 1 /\ aCalls[2] = 1

\* C6: a BuildImage that returns after a failure in the bootstrap or the
\* post-install phase returns the wrapped error of the one operation of that
\* phase that reported first; after failed assertions it returns the
\* aggregate of all failing assertions' errors.
FirstErrorWins ==
    pc = "done" =>
        /\ (\E op \in BootstrapOps : opState[op] = "failed")
              => /\ reported # <<>> /\ reported[1] \in BootstrapOps
                 /\ opState[reported[1]] = "failed"
                 /\ ret = Errorf(GoMessage(reported[1]), OpError(reported[1], 0))
        /\ (\E op \in PostInstallOps : opState[op] = "failed")
              => /\ reported # <<>> /\ reported[1] \in PostInstallOps
                 /\ opState[reported[1]] = "failed"
                 /\ ret = Errorf(GoMessage(reported[1]), OpError(reported[1], 0))
        /\ FailedAssertions # {}
              => /\ ret.kind = "multi"
                 /\ Range(ret.errors) = {aErr[i] : i \in FailedAssertions}

\* both post-install operations failed and BuildImage has returned
FirstErrorWins_witness ==
    /\ pc = "done"
    /\ Len(reported) = 2
    /\ Range(reported) = PostInstallOps

(***************************************************************************)
(* Properties of Validate (checked under SpecValidate)                     *)
(***************************************************************************)
AccountsValid(c) ==
    /\ \A i \in DOMAIN c.Accounts.Users :
          c.Accounts.Users[i].UserName # "" /\ c.Accounts.Users[i].UID # 0
    /\ \A i \in DOMAIN c.Accounts.Groups :
          c.Accounts.Groups[i].GroupName # "" /\ c.Accounts.Groups[i].GID # 0

\* C7: Validate returns nil exactly when every configured user and group
\* has a non-empty name and a non-zero numeric ID.
ValidateChecksAccounts ==
    vcalls >= 1 => (verr = Nil <=> AccountsValid(icPre))

\* Validate has rejected a configuration whose only fault is a UID 0
ValidateChecksAccounts_witness ==
    /\ vcalls = 1
    /\ verr # Nil
    /\ Len(icPre.Accounts.Users) = 2
    /\ icPre.Accounts.Users[1] = User("nobody", 65534, 65534)
    /\ icPre.Accounts.Users[2] = User("nobody", 0, 65534)
    /\ icPre.Accounts.Groups = <<>>

\* C8: after Validate on a service-bundle configuration the command is the
\* supervision launcher and the packages are the previous packages, in
\* order, followed by more that include "s6"; for any other entrypoint type
\* command and packages are unchanged.
ServiceBundleNormalised ==
    vcalls >= 1 =>
        IF icPre.Entrypoint.Type = "service-bundle"
        THEN /\ ic.Entrypoint.Command = "/bin/s6-svscan /sv"
             /\ "s6" \in Range(ic.Contents.Packages)
             /\ Len(ic.Contents.Packages) >= Len(icPre.Contents.Packages)
             /\ SubSeq(ic.Contents.Packages, 1, Len(icPre.Contents.Packages))
                    = icPre.Contents.Packages
        ELSE /\ ic.Entrypoint.Command = icPre.Entrypoint.Command
             /\ ic.Contents.Packages = icPre.Contents.Packages

\* Validate has accepted a service bundle that listed no packages
ServiceBundleNormalised_witness ==
    /\ vcalls = 1
    /\ verr = Nil
    /\ icPre.Entrypoint.Type = "service-bundle"
    /\ icPre.Contents.Packages = <<>>
    /\ icPre.Entrypoint.Command = "/bin/sh"
    /\ ic.Contents.Packages = <<"s6">>

\* the fields Validate never writes are those of configuration c
SameOutsideNormalisation(c) ==
    /\ ic.Contents.Repositories = c.Contents.Repositories
    /\ ic.Contents.Keyring = c.Contents.Keyring
    /\ ic.Entrypoint.Type = c.Entrypoint.Type
    /\ ic.Entrypoint.Services = c.Entrypoint.Services
    /\ ic.Accounts = c.Accounts
    /\ ic.Archs = c.Archs

\* C21: whatever Validate returned, a configuration that is not a service
\* bundle is as it was loaded; a service-bundle one has, after n >= 1 calls,
\* the launcher command and n more package entries "s6" behind the loaded
\* ones, and its other fields as loaded.
ValidateEffectIgnoresOutcome ==
    /\ SameOutsideNormalisation(ic0)
    /\ ic0.Entrypoint.Type # "service-bundle" => ic = ic0
    /\ ic0.Entrypoint.Type = "service-bundle" /\ vcalls >= 1 =>
          /\ ic.Entrypoint.Command = "/bin/s6-svscan /sv"
          /\ Len(ic.Contents.Packages) = Len(ic0.Contents.Packages) + vcalls
          /\ SubSeq(ic.Contents.Packages, 1, Len(ic0.Contents.Packages))
                = ic0.Contents.Packages
          /\ \A i \in Len(ic0.Contents.Packages) + 1 .. Len(ic.Contents.Packages) :
                ic.Contents.Packages[i] = "s6"

\* a service bundle with a nameless user was validated MaxValidateCalls
\* times: every call failed and every call appended a package
ValidateEffectIgnoresOutcome_witness ==
    /\ vcalls = MaxValidateCalls
    /\ verr # Nil
    /\ ~AccountsValid(ic0)
    /\ ic0.Entrypoint.Type = "service-bundle"
    /\ ic0.Contents.Packages = <<"busybox">>
    /\ ic0.Entrypoint.Command = "/bin/sh"
    /\ Len(ic.Contents.Packages) = 1 + MaxValidateCalls
    /\ ic.Entrypoint.Command = "/bin/s6-svscan /sv"

(***************************************************************************)
(* Properties of ParseArchitectures (checked under SpecArch)               *)
(***************************************************************************)
\* the canonical name the specification gives each package-manager name
CanonicalName(s) ==
    CASE s = "x86"     -> "386"
      [] s = "x86_64"  -> "amd64"
      [] s = "aarch64" -> "arm64"
      [] s = "armhf"   -> "arm/v6"
      [] s = "armv7"   -> "arm/v7"
      [] OTHER         -> s

\* C9: parsing the strings of ParseArchitectures' output gives the output
\* again.
ParseIdempotent ==
    apc \in {"reparsed", "permuted"} => archOut2 = archOut

\* a list of an unknown name and a package-manager name has been parsed,
\* and its output parsed again
ParseIdempotent_witness ==
    /\ apc = "reparsed"
    /\ rawIn = <<"mips", "x86">>
    /\ archOut = <<"386", "mips">>
    /\ archOut2 = <<"386", "mips">>

\* C10: every rearrangement of the raw list parses to the same result, and
\* a result is strictly ascending in byte order, holds no package-manager
\* name, and holds exactly the canonical names of the raw names.
ParseCanonical ==
    /\ apc = "permuted" => permOut = archOut
    /\ apc # "input" /\ apc # "idle" =>
          /\ \A i, j \in DOMAIN archOut :
                i < j => StringLess(archOut[i], archOut[j])
          /\ Range(archOut) \cap ApkNames = {}
          /\ Range(archOut) = {CanonicalName(rawIn[i]) : i \in DOMAIN rawIn}

\* a package-manager name and a canonical name, parsed in both orders
ParseCanonical_witness ==
    /\ apc = "permuted"
    /\ rawIn = <<"aarch64", "armhf">>
    /\ permIn = <<"armhf", "aarch64">>
    /\ archOut = <<"arm/v6", "arm64">>
    /\ permOut = <<"arm/v6", "arm64">>

(***************************************************************************)
(* Further properties of BuildImage (checked under Spec)                   *)
(***************************************************************************)
\* the phase a wrapping message names (0: none)
PhaseNamedBy(msg) ==
    CASE msg = "failed to validate configuration: %w"      -> 1
      [] msg = "failed to initialize apk database: %w"     -> 2
      [] msg = "failed to initialize apk keyring: %w"      -> 3
      [] msg = "failed to initialize apk repositories: %w" -> 3
      [] msg = "failed to initialize apk world: %w"        -> 3
      [] msg = "failed to fixate apk world: %w"            -> 4
      [] msg = "failed to normalize scripts.tar: %w"       -> 5
      [] msg = "failed to mutate accounts: %w"             -> 5
      [] msg = "failed to install busybox symlinks: %w"    -> 7
      [] msg = "failed to write supervision tree: %w"      -> 8
      [] msg = "failed to generate SBOM: %w"               -> 9
      [] OTHER                                             -> 0

\* C15: every error BuildImage returns is an error wrapped with a message
\* that names the phase of an operation that failed.
ErrorsNamePhase ==
    pc = "done" /\ ret # Nil =>
        /\ ret.kind = "errorf"
        /\ \E u \in Units : UFailed(u) /\ UPhase(u) = PhaseNamedBy(ret.msg)

\* C16: InstallBusyboxSymlinks is entered only with UseProot and after
\* runAssertions returned nil; with bin/busybox absent it returns nil without
\* calling ExecuteChroot and BuildImage goes on to the supervision tree; with
\* it present ExecuteChroot is called exactly once, and when that call fails
\* BuildImage returns an error.
EmulationSetup ==
    /\ opState["InstallBusyboxSymlinks"] # "idle"
          => UseProot /\ opState["runAssertions"] = "ok"
    /\ statResult = "notexist"
          => /\ calls["ExecuteChroot"] = 0
             /\ opState["InstallBusyboxSymlinks"] = "ok"
             /\ pc \in {"WriteSupervisionTree", "GenerateSBOM", "done"}
             /\ opState["WriteSupervisionTree"] = "idle" => pc = "WriteSupervisionTree"
    /\ statResult = "exists" => calls["ExecuteChroot"] = 1
    /\ statResult = "unknown" => calls["ExecuteChroot"] = 0
    /\ opState["ExecuteChroot"] = "failed"
          => /\ pc = "done" /\ ret # Nil
             /\ opState["WriteSupervisionTree"] = "idle"

\* emulation was requested, bin/busybox was absent, and the build went on
\* to write the supervision tree and finished
EmulationSetup_witness ==
    /\ UseProot
    /\ statResult = "notexist"
    /\ calls["ExecuteChroot"] = 0
    /\ opState["WriteSupervisionTree"] = "ok"
    /\ pc = "done" /\ ret = Nil

\* C17: a BuildImage that has returned wrote the supervision tree if the
\* assertions (and the emulation setup, when requested) passed, whatever the
\* entrypoint type; it called GenerateSBOM exactly when a path is configured
\* and everything before it succeeded, at most once and as its last
\* operation; a failed GenerateSBOM makes it return an error, and with no
\* path it returns nil without calling it.
SupervisionTreeAndSBOM ==
    /\ pc = "done" /\ opState["runAssertions"] = "ok"
            /\ (UseProot => opState["InstallBusyboxSymlinks"] = "ok")
          => calls["WriteSupervisionTree"] = 1
    /\ calls["GenerateSBOM"] <= 1
    /\ pc = "done"
          => (calls["GenerateSBOM"] = 1
                <=> SBOMPath # "" /\ opState["WriteSupervisionTree"] = "ok")
    /\ opState["GenerateSBOM"] # "idle"
          => \A u \in Units : u.op # "GenerateSBOM" => ~UInProgress(u)
    /\ opState["GenerateSBOM"] \in {"ok", "failed"} => pc = "done"
    /\ opState["GenerateSBOM"] = "failed" => ret # Nil
    /\ pc = "done" /\ SBOMPath = "" /\ opState["WriteSupervisionTree"] = "ok"
          => ret = Nil /\ calls["GenerateSBOM"] = 0

\* a service-bundle build without an SBOM path has finished
SupervisionTreeAndSBOM_witness ==
    /\ pc = "done" /\ ret = Nil
    /\ SBOMPath = ""
    /\ icPre.Entrypoint.Type = "service-bundle"
    /\ calls["WriteSupervisionTree"] = 1
    /\ calls["GenerateSBOM"] = 0

\* C18: Validate is called once, before any collaborator, and no collaborator
\* and no assertion is called more than once, whatever has failed.
NoRetries ==
    /\ calls["Validate"] = vcalls
    /\ calls["Validate"] = IF pc = "Validate" THEN 0 ELSE 1
    /\ pc = "Validate"
          => /\ \A op \in Collaborators : calls[op] = 0
             /\ \A i \in 1..nAssert : aCalls[i] = 0
    /\ \A op \in Ops : calls[op] <= 1
    /\ \A i \in 1..nAssert : aCalls[i] <= 1

\* BuildImage has returned after two bootstrap operations failed, each
\* called once
NoRetries_witness ==
    /\ pc = "done"
    /\ opState["InitApkKeyring"] = "failed"
    /\ opState["InitApkWorld"] = "failed"
    /\ \A op \in BootstrapOps : calls[op] = 1
    /\ calls["Validate"] = 1

(***************************************************************************)
(* Architecture names in both directions (checked under SpecArch)          *)
(***************************************************************************)
\* C19: for every canonical architecture a, ParseArchitectures of the
\* one-element list [a.ToAPK()] is exactly [a], and ToAPK maps no two
\* canonical architectures to the same name.
Bidirectional ==
    /\ \A a \in Range(AllArchs) :
          apc \notin {"input", "idle"} /\ rawIn = <<ToAPK(a)>> => archOut = <<a>>
    /\ \A a, b \in Range(AllArchs) : ToAPK(a) = ToAPK(b) => a = b

\* the package-manager name of arm/v7 was parsed back to arm/v7
Bidirectional_witness ==
    /\ apc = "parsed"
    /\ rawIn = <<ToAPK(archArmv7)>>
    /\ rawIn # <<archArmv7>>
    /\ archOut = <<archArmv7>>

(***************************************************************************)
(* Termination of runAssertions (checked under SpecLive)                   *)
(***************************************************************************)
\* an assertion goroutine that has an error to send can send it
SendNeverBlocks ==
    \A i \in 1..nAssert :
        aState[i] = "returned" /\ aErr[i] # Nil
            => ~chClosed /\ Len(errCh) < ErrChCap

\* C20: no assertion goroutine ever blocks on its send, and a runAssertions
\* that was entered returns, for any number of assertions, unless one of the
\* assertion functions itself never returns.
AssertionsTerminate ==
    /\ []SendNeverBlocks
    /\ (opState["runAssertions"] = "running")
          ~> (RunAssertionsReturned \/ \E i \in 1..nAssert : aState[i] = "hung")

\* runAssertions has returned after every one of MaxAssertions assertions
\* returned an error: the result channel was filled to its capacity
AssertionsTerminate_witness ==
    /\ nAssert = MaxAssertions
    /\ RunAssertionsReturned
    /\ \A i \in 1..nAssert : aState[i] = "exited" /\ aErr[i] # Nil
    /\ result.kind = "multi" /\ Len(result.errors) = nAssert

(***************************************************************************)
(* SBOM dependency entries (checked under SpecSBOM)                        *)
(***************************************************************************)
\* the version/constraint characters: space ~ < > = / !
ConstraintChars == {" ", "~", "<", ">", "=", "/", "!"}

\* a specifier cut at its first version/constraint character
NameOf(d) ==
    LET n == CHOOSE n \in 0..Len(d) :
                 /\ \A j \in 1..n : d[j] \notin ConstraintChars
                 /\ n = Len(d) \/ d[n + 1] \in ConstraintChars
    IN  SubSeq(d, 1, n)

\* a specifier that is represented in the dependency graph
IsRepresented(d) == (\A j \in DOMAIN d : d[j] # ":") /\ NameOf(d) # <<>>

\* the reference "pkg:apk/<os-id>/<name>"
RefOf(id, name) ==
    <<"p", "k", "g", ":", "a", "p", "k", "/">> \o id \o <<"/">> \o name

\* the references expected for a list of specifiers
ExpectedRefs(id, deps) ==
    LET kept == SelectSeq(deps, IsRepresented)
    IN  [k \in 1..Len(kept) |-> RefOf(id, NameOf(kept[k]))]

\* the dependency entries are as expected
EntriesFiltered(entries) ==
    /\ Len(entries) = Len(opts.Packages)
    /\ \A k \in 1..Len(opts.Packages) :
          entries[k].DependsOn =
              ExpectedRefs(opts.OS.ID, opts.Packages[k].Dependencies)

\* C11: for every package, in the Document Generate builds and in the file it
\* writes, the dependsOn list is exactly, in declaration order, the references
\* "pkg:apk/<os-id>/<name>" of the specifiers that contain no colon and whose
\* name, the specifier cut at its first constraint character, is not empty.
DependsOnFiltered ==
    /\ spc \in {"os.Create", "enc.Encode", "done"} => EntriesFiltered(bom.Dependencies)
    /\ spc = "done" /\ sbomErr = Nil => EntriesFiltered(sbomFile.json.Dependencies)

\* package foo with "bar>=1.0", "virtual:baz", "qux" and OS id wolfi was
\* written with dependsOn pkg:apk/wolfi/bar and pkg:apk/wolfi/qux
DependsOnFiltered_witness ==
    /\ spc = "done" /\ sbomErr = Nil
    /\ opts = [OS |-> OS(wolfi), Packages |-> <<foo>>]
    /\ Len(sbomFile.json.Dependencies) = 1
    /\ sbomFile.json.Dependencies[1].DependsOn =
          << <<"p", "k", "g", ":", "a", "p", "k", "/", "w", "o", "l", "f", "i",
               "/", "b", "a", "r">>,
             <<"p", "k", "g", ":", "a", "p", "k", "/", "w", "o", "l", "f", "i",
               "/", "q", "u", "x">> >>

(***************************************************************************)
(* The archive (checked under SpecTar)                                     *)
(***************************************************************************)
\* the three timestamps of a header are the epoch
AllEpoch(h) == h.AccessTime = epoch /\ h.ModTime = epoch /\ h.ChangeTime = epoch

\* the times the source tree carried in this run or in the first one
SourceTimes ==
    UNION {{c, c + 1, c + 2} : c \in {clock} \cup {first[i].clock : i \in DOMAIN first}}

\* C12: every header written, in the tar writer and in the finished output,
\* for directories, regular files and symlinks and for the root entry, has
\* its access, modification and change time equal to SourceDateEpoch, and
\* none of them is a time of the source tree.
TimestampsAreEpoch ==
    LET written == IF out.state = "complete" THEN tw \o out.gzip.entries ELSE tw
    IN  \A i \in DOMAIN written :
           /\ AllEpoch(written[i].header)
           /\ {written[i].header.AccessTime, written[i].header.ModTime,
               written[i].header.ChangeTime} \cap SourceTimes = {}

\* a tree with a directory, a regular file and a symlink was archived
TimestampsAreEpoch_witness ==
    /\ tpc = "returned" /\ waErr = Nil
    /\ out.state = "complete"
    /\ {out.gzip.entries[i].header.Typeflag : i \in DOMAIN out.gzip.entries}
          = {"dir", "file", "symlink"}
    /\ out.gzip.entries[1].header.Name = <<".">>
    /\ \A i \in DOMAIN out.gzip.entries : AllEpoch(out.gzip.entries[i].header)
    /\ epoch = 1 /\ clock = 200

\* the root-relative name of a path
RECURSIVE Slashed(_)
Slashed(p) ==
    IF p = <<>> THEN <<".">>
    ELSE IF Len(p) = 1 THEN p[1]
    ELSE p[1] \o <<"/">> \o Slashed(Tail(p))

\* p comes before q in lexicographic depth-first order: a directory before
\* what it holds, and otherwise by the first component that differs
RECURSIVE Before(_, _)
Before(p, q) ==
    IF p = <<>> THEN q # <<>>
    ELSE IF q = <<>> THEN FALSE
    ELSE IF Head(p) # Head(q) THEN NameLess(Head(p), Head(q))
    ELSE Before(Tail(p), Tail(q))

\* the paths of the tree that an entry name names
PathsNamed(name) == {p \in DOMAIN fsys : Slashed(p) = name}

\* the entries are entries of the tree, each named by its root-relative
\* path and carrying its type, mode, link target and (unless the copy failed)
\* bytes, in order
InTreeOrder(entries) ==
    /\ \A i \in DOMAIN entries :
          /\ PathsNamed(entries[i].header.Name) # {}
          /\ \A p \in PathsNamed(entries[i].header.Name) :
                /\ entries[i].header.Typeflag = fsys[p].type
                /\ entries[i].header.Mode = fsys[p].mode
                /\ fsys[p].type = "file" /\ tarErr = Nil
                      => entries[i].data = fsys[p].data
                /\ fsys[p].type = "symlink"
                      => entries[i].header.Linkname = fsys[p].link
    /\ \A i, j \in DOMAIN entries :
          i < j => \A p \in PathsNamed(entries[i].header.Name),
                      q \in PathsNamed(entries[j].header.Name) : Before(p, q)

\* C13: the entries are emitted in lexicographic depth-first order with
\* root-relative names, a finished archive holds every path of the tree, and
\* a second run on the same content with the same epoch, whatever the on-disk
\* entry orders and timestamps of the two runs, gives the same output.
ArchiveDeterministic ==
    /\ InTreeOrder(tw)
    /\ tpc \in {"done", "returned"} /\ tarErr = Nil
          => Len(tw) = Cardinality(DOMAIN fsys)
    /\ first # <<>> /\ tpc \in {"done", "returned"} /\ tarErr = Nil
            /\ out.state = "complete"
          => out = first[1].out

\* two runs that met other disk orders and other timestamps gave the same
\* archive: ".", "a", "a/b", "a/c", "a.b"
ArchiveDeterministic_witness ==
    /\ first # <<>> /\ tpc = "returned" /\ waErr = Nil
    /\ out.state = "complete"
    /\ first[1].clock # clock
    /\ first[1].disk # disk
    /\ out = first[1].out
    /\ [i \in DOMAIN tw |-> tw[i].header.Name]
          = << <<".">>, <<"a">>, <<"a", "/", "b">>, <<"a", "/", "c">>,
               <<"a", ".", "b">> >>

\* C14: an error at any point of producing the archive, the closing of the
\* tar and gzip streams included, is returned by WriteArchiveFromFS and by
\* WriteArchive, and no success is returned unless the sink holds the
\* finished stream.
ErrorsAbortArchive ==
    tpc \in {"done", "returned"} =>
        /\ closeErr # <<>> => tarErr # Nil
        /\ tarErr = Nil => out.state = "complete"
        /\ tpc = "returned" => (waErr = Nil <=> tarErr = Nil)

====
